---- MODULE Spec2Model ----
(***************************************************************************)
(* url-to-s3: one run of the action (src/src/index.ts run) with the        *)
(* Downloader (src/src/download.ts downloadAsStream), the Existence Check  *)
(* (index.ts objectExists) and the Uploader (src/src/upload.ts             *)
(* uploadStreamToS3).  One step of the model is the code that runs between *)
(* two awaits of run(): the answer of the awaited call is the step's       *)
(* input.                                                                  *)
(***************************************************************************)
EXTENDS Integers, Sequences, FiniteSets, TLC

VARIABLES
  parsePc,          \* index.ts:59-61  the next parser call of run()
  kvInput,          \* index.ts:39, 54, 55  the text given to the parser
  kvResult,         \* index.ts:59-61  what the last parser call gave
  kvWarnings,       \* download.ts:63, 77  core.warning calls of the last parser call
  headers,          \* index.ts:59   parseHeaders(headersInput): the entries, in key order
  ifNotExists,      \* index.ts:56   core.getInput('if-not-exists') === 'true'
  enableRetry,      \* index.ts:42   core.getInput('enable-retry') === 'true'
  authType,         \* index.ts:44   '' when the input is unset
  authUsername,     \* index.ts:45
  authPassword,     \* index.ts:46
  authToken,        \* index.ts:47
  acl,              \* index.ts:50
  contentTypeOverride, \* index.ts:52  '' when the input is unset
  storageClass,     \* index.ts:51   after || 'STANDARD'
  pc,               \* the await run() is suspended at, or how it ended
  caught,           \* the error the catch block of run() received
  headCalls,        \* HeadObjectCommand requests sent to the store
  headAnswer,       \* index.ts:12   what the store answered the HeadObjectCommand
  exists,           \* index.ts:68   what objectExists returned, once it has
  downloaderCalls,  \* calls of downloadAsStream
  config,           \* download.ts:152  the AxiosRequestConfig (its headers)
  attempt,          \* download.ts:176  loop variable of the retry loop
  attemptLog,       \* what each axios(config) call was answered, in order
  delays,           \* the setTimeout delays of the retry loop, in order
  httpRequests,     \* axios(config) calls issued
  requests,         \* download.ts:184  the request each axios(config) call sent, in order
  responseHeaders,  \* download.ts:229-231  the headers of the response read by the code
  downloadResult,   \* the DownloadResult returned to run(), if any
  relays,           \* ByteCountingStream objects created
  bodyLeft,         \* bytes of the response body not yet delivered
  bytesTransferred, \* download.ts:22   ByteCountingStream.bytesTransferred
  chunks,           \* the lengths of the chunks the relay's 'data' listener saw
  delivered,        \* bytes the relay handed to the consumer of the store write
  sourceState,      \* download.ts:247  response.data: "none", "open", "ended", "errored"
  relayState,       \* download.ts:244  the relay: "none", "open", "ended", "errored"
  buffered,         \* the chunks the relay holds for its reader, not yet read
  uploaderCalls,    \* calls of uploadStreamToS3
  uploadParams,     \* upload.ts:213-227  the PutObjectCommandInput (length and type)
  storeWrites,      \* Upload.done() calls started
  writeAnswer,      \* what the store answered the write, once it has
  uploadError,      \* upload.ts:277-282  the error uploadStreamToS3 threw, if any
  consumerAttached, \* upload.ts:264  upload.done() has started reading the relay
  outputs,          \* the core.setOutput values: {} or one record of the five
  failedSignal,     \* core.setFailed has been called
  discrepancyWarnings, \* index.ts:147  core.warning calls for a length difference
  summaryWrites     \* core.summary...write() calls started

parserVars == <<parsePc, kvInput, kvResult, kvWarnings>>
inputVars == <<headers, ifNotExists, enableRetry, authType, authUsername,
               authPassword, authToken, acl, storageClass, contentTypeOverride>>
downloadVars == <<downloaderCalls, config, attempt, attemptLog, delays, httpRequests,
                  requests>>
streamVars == <<responseHeaders, downloadResult, relays, bodyLeft, bytesTransferred, chunks,
                delivered, sourceState, relayState, buffered>>
uploadVars == <<uploaderCalls, uploadParams, storeWrites, writeAnswer, uploadError,
                consumerAttached>>
runVars == <<pc, caught, headCalls, headAnswer, exists, downloadVars, streamVars,
             uploadVars, outputs, failedSignal, discrepancyWarnings, summaryWrites>>
vars == <<parserVars, inputVars, pc, caught, headCalls, headAnswer, exists, downloadVars, streamVars,
          uploadVars, outputs, failedSignal, discrepancyWarnings, summaryWrites>>

(***************************************************************************)
(* Bounds of the model.                                                    *)
(***************************************************************************)
MaxBody == 2
MaxDelimLen == 6
MaxJsonBody == 4

(***************************************************************************)
(* Inputs and answers of the collaborators.                                *)
(***************************************************************************)
s3Bucket == "my-bucket"
s3Key == "data.json"

\* index.ts:32, 38, 40, 41  the request the run is asked to make
url == "https://example.com/data.json"
method == "POST"
postData == "payload"
timeout == 900000

AuthTypes == {"", "none", "basic", "bearer"}
Usernames == {"", "user"}
Passwords == {"", "secret"}
Tokens == {"", "tok"}
Acls == {"", "private", "not-an-acl"}
StorageClasses == {"STANDARD", "not-a-class"}
ContentTypeOverrides == {"", "text/csv"}

\* The caller's headers as parseHeaders hands them to run(): a mapping, kept
\* as its <<key, value>> entries in the order of the object's keys; no
\* entries also stands for undefined ({...undefined} is {}).
CallerCredential == <<"Bearer", "callers-token">>
CallerHeaders ==
  {<<>>,
   << <<"Accept", <<"text/plain">> >> >>,
   << <<"Authorization", CallerCredential>> >>,
   << <<"authorization", CallerCredential>> >>}

\* The texts given to the Key-Value Parser: every string of at most
\* MaxDelimLen characters over a blank, ';', '=', the letter a and the word
\* __proto__, and '{' followed by at most MaxJsonBody characters of JSON
\* punctuation, the string literal "a", the digit 1, '=' and a blank.
Seqs(alphabet, n) == UNION {[1..k -> alphabet] : k \in 0..n}
DelimAlphabet == {" ", ";", "=", "a", "__proto__"}
JsonAlphabet == {"{", "}", ":", ",", "\"a\"", "1", "=", " "}
DelimInputs == Seqs(DelimAlphabet, MaxDelimLen)
JsonInputs == {<<"{">> \o body : body \in Seqs(JsonAlphabet, MaxJsonBody)}
Inputs == DelimInputs \cup JsonInputs

\* What the store answers a HeadObjectCommand: the state of the store that
\* caused the answer, and what the SDK hands the code: no error, or an error
\* with a name and, when a response arrived, the response's status
\* ($metadata.httpStatusCode; 0 stands for no $metadata).  A HEAD response has
\* no body, so a missing bucket is reported like a missing key, as a 404.
HeadResult(cause, name, status) == [cause |-> cause, name |-> name, httpStatusCode |-> status]
NoHead == HeadResult("none", "", 0)
HeadAnswers ==
  {HeadResult("objectPresent", "", 200),
   HeadResult("objectMissing", "NotFound", 404),
   HeadResult("bucketMissing", "NotFound", 404),
   HeadResult("bucketMissing", "NoSuchBucket", 404),
   HeadResult("forbidden", "AccessDenied", 403),
   HeadResult("network", "TimeoutError", 0)}

\* What the source answers one axios(config) call: a response with a status,
\* no response at all (connection failure, timeout, too many redirects), or
\* a throw from below axios that is no AxiosError.
Statuses == {200, 304, 401, 404, 408, 429, 500, 502, 503, 504, 600}
Response(s) == [kind |-> "response", status |-> s]
NoResponse == [kind |-> "noresponse", status |-> 0]
ThrownError == [kind |-> "thrownError", status |-> 0]
ThrownValue == [kind |-> "thrownValue", status |-> 0]
Answers == {Response(s) : s \in Statuses} \cup {NoResponse, ThrownError, ThrownValue}

\* The Content-Length header of a response.
Header(k, n) == [kind |-> k, n |-> n]
Headers == {Header("absent", 0), Header("nan", 0)}
             \cup {Header("num", n) : n \in -1..MaxBody + 1}

\* The Content-Type header of a response: '' when there is none.
ContentTypes == {"", "application/json"}

\* The message of the error the store's client throws when the write fails.
StoreErrorMessage == <<"Access Denied">>

\* What the store answers the write: an acknowledgement with or without an
\* ETag, or an error.
WriteAnswers == {"etag", "noEtag", "error"}

\* Errors, as the catch block of run() sees them.
Err(k, s, isErr) == [kind |-> k, status |-> s, isError |-> isErr]
NoError == Err("none", 0, TRUE)
NoResult == [returned |-> FALSE, statusCode |-> 0, contentLengthHeader |-> 0,
             contentType |-> ""]
NoHeaders == [contentLength |-> Header("absent", 0), contentType |-> ""]

(***************************************************************************)
(* src/src/download.ts                                                     *)
(***************************************************************************)

\* generateAuthHeader throwing only when both credentials are missing
\* (&& for || in line 109).
generateAuthHeaderBothMissing ==
  IF authType = "" \/ authType = "none"
    THEN [throws |-> FALSE, header |-> <<>>]
  ELSE IF authType = "basic"
    THEN IF authUsername = "" /\ authPassword = ""
           THEN [throws |-> TRUE, header |-> <<>>]
           ELSE [throws |-> FALSE, header |-> <<"Basic", authUsername, authPassword>>]
  ELSE IF authType = "bearer"
    THEN IF authToken = ""
           THEN [throws |-> TRUE, header |-> <<>>]
           ELSE [throws |-> FALSE, header |-> <<"Bearer", authToken>>]
  ELSE [throws |-> FALSE, header |-> <<>>]

\* download.ts:103-124.  The Authorization header, or the throw; "" is
\* JavaScript's undefined / empty string (both falsy).
generateAuthHeader ==
  IF authType = "" \/ authType = "none"
    THEN [throws |-> FALSE, header |-> <<>>]
  ELSE IF authType = "basic"
    THEN IF authUsername = "" \/ authPassword = ""
           THEN [throws |-> TRUE, header |-> <<>>]
           ELSE [throws |-> FALSE, header |-> <<"Basic", authUsername, authPassword>>]
  ELSE IF authType = "bearer"
    THEN IF authToken = ""
           THEN [throws |-> TRUE, header |-> <<>>]
           ELSE [throws |-> FALSE, header |-> <<"Bearer", authToken>>]
  ELSE [throws |-> FALSE, header |-> <<>>]

\* download.ts:141  headers[key] = value on a plain object: an existing key
\* keeps its place and takes the value, a new key comes last.  Keys are
\* compared exactly (case-sensitive).
setKey(obj, key, value) ==
  IF \E i \in 1..Len(obj) : obj[i][1] = key
    THEN [i \in 1..Len(obj) |-> IF obj[i][1] = key THEN <<key, value>> ELSE obj[i]]
    ELSE Append(obj, <<key, value>>)

\* The generated header written first and the caller's entries spread over
\* it: { Authorization: authHeader, ...options.headers }.
RECURSIVE setAll(_, _)
setAll(obj, entries) ==
  IF entries = <<>> THEN obj
  ELSE setAll(setKey(obj, entries[1][1], entries[1][2]), Tail(entries))

mergeHeadersCallerLast(callerHeaders, authHeader) ==
  IF authHeader # <<>>
    THEN setAll(<< <<"Authorization", authHeader>> >>, callerHeaders)
    ELSE callerHeaders

\* download.ts:138-142  const headers = { ...options.headers };
\* if (authHeader) headers['Authorization'] = authHeader
mergeHeaders(callerHeaders, authHeader) ==
  IF authHeader # <<>>
    THEN setKey(callerHeaders, "Authorization", authHeader)
    ELSE callerHeaders

\* download.ts:152-160  the config before any call of downloadAsStream
NoConfig == [method |-> "", url |-> "", headers |-> <<>>, timeout |-> 0, data |-> ""]

\* download.ts:152-166  the AxiosRequestConfig: config.data is only set for
\* a non-empty body and the methods POST, PUT and PATCH
buildConfig(mergedHeaders) ==
  [method |-> method, url |-> url, headers |-> mergedHeaders, timeout |-> timeout,
   data |-> IF postData # "" /\ method \in {"POST", "PUT", "PATCH"} THEN postData ELSE ""]

\* The loop building the config of a retry anew from the caller's headers,
\* without the synthesized Authorization header.
attemptConfigRebuilt(cfg, n) == IF n = 0 THEN cfg ELSE buildConfig(headers)

\* download.ts:176-184  every iteration of the retry loop passes the one
\* config object, which nothing assigns to after line 166.
attemptConfig(cfg, n) == cfg

\* The lower-case form of a header name (HTTP header names are
\* case-insensitive).
lower(key) ==
  IF key = "Authorization" THEN "authorization"
  ELSE IF key = "Accept" THEN "accept"
  ELSE key

\* download.ts:184  axios(config) sends the request: the HTTP client takes
\* the config's headers in key order and sets each one by its
\* case-insensitive name, so of two entries whose names differ only in case
\* the later one is sent.
RECURSIVE sendHeaders(_, _)
sendHeaders(sent, entries) ==
  IF entries = <<>> THEN sent
  ELSE LET e == entries[1]
           set == IF \E i \in 1..Len(sent) : lower(sent[i][1]) = lower(e[1])
                    THEN [i \in 1..Len(sent) |->
                            IF lower(sent[i][1]) = lower(e[1])
                              THEN <<sent[i][1], e[2]>> ELSE sent[i]]
                    ELSE Append(sent, e)
       IN  sendHeaders(set, Tail(entries))

\* The headers of the outgoing request.
requestHeaders == sendHeaders(<<>>, config.headers)

\* download.ts:184  the request that axios(cfg) sends
axiosRequest(cfg) ==
  [method |-> cfg.method, url |-> cfg.url, headers |-> sendHeaders(<<>>, cfg.headers),
   timeout |-> cfg.timeout, data |-> cfg.data]

\* download.ts:159  validateStatus of the axios config.
validateStatus(status) == status < 600

\* download.ts:184  axios(config) resolves with the response exactly when
\* validateStatus accepts its status; otherwise it rejects.
axiosResolves(ans) == ans.kind = "response" /\ validateStatus(ans.status)

\* download.ts:189  axios.isAxiosError(error)
isAxiosError(ans) == ans.kind \in {"response", "noresponse"}

\* download.ts:190  error.response?.status (0: undefined)
errorStatus(ans) == IF ans.kind = "response" THEN ans.status ELSE 0

\* maxRetries with one retry too many.
maxRetriesFour == IF enableRetry THEN 4 ELSE 0

\* download.ts:169
maxRetries == IF enableRetry THEN 3 ELSE 0

\* download.ts:170
retryDelay == 1000

\* download.ts:171
retryStatusCodes == {408, 429, 500, 502, 503, 504}

\* delay with the exponent off by one.
delayDoubled(n) == retryDelay * 2 ^ n

\* download.ts:179  the delay waited before attempt n
delay(n) == retryDelay * 2 ^ (n - 1)

\* shouldRetry without the test of the status.
shouldRetryAnyStatus(n, status) ==
  /\ enableRetry
  /\ n < maxRetries

\* download.ts:191-193
shouldRetry(n, status) ==
  /\ enableRetry
  /\ n < maxRetries
  /\ (IF status # 0 THEN status \in retryStatusCodes ELSE TRUE)

\* The status check left out, and the status check for 5xx only.
isErrorStatusNever(statusCode) == FALSE
isErrorStatusServerOnly(statusCode) == statusCode >= 500

\* The status check for 4xx only.
isErrorStatusClientOnly(statusCode) == statusCode >= 400 /\ statusCode < 500

\* download.ts:223  the status check after the retry loop
isErrorStatus(statusCode) == statusCode >= 400

\* The total of a sequence of chunk lengths.
RECURSIVE Sum(_)
Sum(seq) == IF seq = <<>> THEN 0 ELSE Head(seq) + Sum(Tail(seq))

\* The relay's listener assigning the chunk's length instead of adding it.
countChunkLast(count, length) == length

\* The relay counting chunks instead of bytes.
countChunkOne(count, length) == count + 1

\* download.ts:26-28  the relay's 'data' listener: bytesTransferred +=
\* chunk.length
countChunk(count, length) == count + length

\* download.ts:231 and 256  parseInt(header || '0', 10), then NaN || 0
parseContentLength(h) == IF h.kind = "num" THEN h.n ELSE 0

(***************************************************************************)
(* src/src/upload.ts                                                       *)
(***************************************************************************)

\* upload.ts:98-106
validAcls == {"private", "public-read", "public-read-write", "authenticated-read",
              "aws-exec-read", "bucket-owner-read", "bucket-owner-full-control"}

\* upload.ts:95-115  TRUE when validateAcl throws
validateAclThrows(a) == a # "" /\ a \notin validAcls

\* upload.ts:123-132
validClasses == {"STANDARD", "REDUCED_REDUNDANCY", "STANDARD_IA", "ONEZONE_IA",
                 "INTELLIGENT_TIERING", "GLACIER", "DEEP_ARCHIVE", "GLACIER_IR"}

\* upload.ts:120-141  TRUE when validateStorageClass throws
validateStorageClassThrows(c) == c # "" /\ c \notin validClasses

\* An optional number: undefined, or the number.
Undefined == [defined |-> FALSE, value |-> 0]
Defined(n) == [defined |-> TRUE, value |-> n]

\* The length given to the store whenever the hint is not zero.
contentLengthParamNonZero(contentLengthHint) ==
  IF contentLengthHint # 0 THEN Defined(contentLengthHint) ELSE Undefined

\* upload.ts:220  ContentLength: options.contentLengthHint &&
\* options.contentLengthHint > 0 ? options.contentLengthHint : undefined
contentLengthParam(contentLengthHint) ==
  IF contentLengthHint # 0 /\ contentLengthHint > 0
    THEN Defined(contentLengthHint)
    ELSE Undefined

\* upload.ts:213-227  the parameters before any call of uploadStreamToS3
NoParams == [ContentLength |-> Undefined, ContentType |-> ""]

\* index.ts:124-136 passing its ifNotExists input on to uploadStreamToS3.
optionsIfNotExistsPassed(flag) == flag

\* index.ts:124-136  the options of the uploadStreamToS3 call hold no
\* ifNotExists, whatever the input: upload.ts:178 reads it as unset.
optionsIfNotExists(flag) == FALSE

\* Chunks forwarded to the relay whatever it already holds, as a 'data'
\* listener calling write() without pipe() would.
pipeFlowsAlways(held) == TRUE

\* download.ts:247  response.data.pipe(byteCounter): pipe() pauses the
\* response while the relay holds a chunk its reader has not taken, and
\* resumes it when the relay has drained.
pipeFlows(held) == held = <<>>

\* No 'error' handler on the response: the relay is left as it is.
onSourceErrorIgnored(relay) == relay

\* The handler ending the relay instead of destroying it with the error.
onSourceErrorEnds(relay) == IF relay = "open" THEN "ended" ELSE relay

\* download.ts:250-252  response.data.on('error', e => byteCounter.destroy(e))
onSourceError(relay) == IF relay = "open" THEN "errored" ELSE relay

\* The store write acknowledged with the relay still open.
writeCanCompleteEarly(relay, held) == relay \in {"open", "ended"}

\* upload.ts:264  upload.done() resolves only when its reader has reached
\* the end of the relay: the relay has ended and holds nothing.
writeCanComplete(relay, held) == relay = "ended" /\ held = <<>>

\* download.ts:21-29  the relay is a PassThrough whose own 'data' listener
\* keeps it flowing: a chunk goes to the reader of the store write when one
\* is attached, and to nobody otherwise.
passThrough(received, attached, n) == IF attached THEN received + n ELSE received

\* upload.ts:277-280  new Error(`Failed to upload to S3: ${error.message}`)
uploadErrorMessage(message) == <<"Failed to upload to S3: ">> \o message

\* upload.ts:264-282  no error has left uploadStreamToS3
NoUploadError == [thrown |-> FALSE, message |-> <<>>]

\* upload.ts:266  response.ETag || ''
etagOf(w) == IF w = "etag" THEN "etag-1" ELSE ""

\* upload.ts:267 and index.ts:74
s3UrlOf(bucket, key) == <<"s3://", bucket, "/", key>>

(***************************************************************************)
(* The Key-Value Parser: parseKeyValuePairs of src/src/download.ts (51-90) *)
(* and of src/src/upload.ts (30-74).  A string is the sequence of its      *)
(* characters; "__proto__" and "\"a\"" stand for the nine and the three     *)
(* characters they spell, none of them a blank, a ';' or a '='.            *)
(***************************************************************************)

\* A value of a parsed mapping: a string, or what JSON.parse can also give.
Str(text) == [type |-> "string", text |-> text, entries |-> <<>>]
Num(text) == [type |-> "number", text |-> text, entries |-> <<>>]
Obj(entries) == [type |-> "object", text |-> <<>>, entries |-> entries]

\* The parser returning the empty mapping where it returns undefined.
AbsentAsEmptyMapping == [throws |-> FALSE, defined |-> TRUE, entries |-> <<>>]

\* What a call of the parser gives: undefined, a mapping (its entries), or
\* an error thrown to the caller.
Absent == [throws |-> FALSE, defined |-> FALSE, entries |-> <<>>]
Returned(entries) == [throws |-> FALSE, defined |-> TRUE, entries |-> entries]
Thrown == [throws |-> TRUE, defined |-> FALSE, entries |-> <<>>]

\* String.prototype.trim (download.ts:52, 56, 72, 81, 82)
RECURSIVE trimStart(_)
trimStart(s) == IF s # <<>> /\ Head(s) = " " THEN trimStart(Tail(s)) ELSE s

RECURSIVE trimEnd(_)
trimEnd(s) ==
  IF s # <<>> /\ s[Len(s)] = " " THEN trimEnd(SubSeq(s, 1, Len(s) - 1)) ELSE s

trim(s) == trimEnd(trimStart(s))

\* download.ts:59  trimmed.startsWith('{')
startsWith(s, c) == s # <<>> /\ Head(s) = c

\* download.ts:75  String.prototype.indexOf: the index, from 0, of the first
\* occurrence of c, or -1
indexOf(s, c) ==
  IF \E i \in 1..Len(s) : s[i] = c
    THEN (CHOOSE i \in 1..Len(s) : s[i] = c /\ \A j \in 1..i - 1 : s[j] # c) - 1
    ELSE -1

\* download.ts:81-82  String.prototype.substring(start, end): indices from
\* 0, end excluded; substring(start) is substring(start, length)
substring(s, start, end) == SubSeq(s, start + 1, end)

\* download.ts:69  String.prototype.split on one character
RECURSIVE split(_, _)
split(s, sep) ==
  LET i == indexOf(s, sep)
  IN  IF i = -1 THEN <<s>>
      ELSE <<substring(s, 0, i)>> \o split(substring(s, i + 1, Len(s)), sep)

\* download.ts:85  result[key] = value on the object literal {}: the key
\* __proto__ names the accessor inherited from Object.prototype, whose
\* setter ignores a string, so no property is created for it.
assignProperty(obj, key, value) ==
  IF key = <<"__proto__">> THEN obj ELSE setKey(obj, key, value)

\* download.ts:61  JSON.parse, for texts over '{', '}', ':', ',', the string
\* literal "a", the digit 1 and the blank: the value, or the SyntaxError.
\* A parse step gives [ok, next, value]: next is the index after the value.
Fail == [ok |-> FALSE, next |-> 0, value |-> Obj(<<>>)]
at(text, i) == IF i \in 1..Len(text) THEN text[i] ELSE "end"

RECURSIVE skipWhitespace(_, _)
skipWhitespace(text, i) ==
  IF at(text, i) = " " THEN skipWhitespace(text, i + 1) ELSE i

RECURSIVE endOfNumber(_, _)
endOfNumber(text, i) ==
  IF at(text, i) = "1" THEN endOfNumber(text, i + 1) ELSE i

RECURSIVE parseValue(_, _)
RECURSIVE parseObject(_, _)
RECURSIVE parseMembers(_, _, _)
parseValue(text, i) ==
  IF at(text, i) = "\"a\""
    THEN [ok |-> TRUE, next |-> i + 1, value |-> Str(<<"a">>)]
  ELSE IF at(text, i) = "1"
    THEN [ok |-> TRUE, next |-> endOfNumber(text, i),
          value |-> Num(SubSeq(text, i, endOfNumber(text, i) - 1))]
  ELSE IF at(text, i) = "{" THEN parseObject(text, i)
  ELSE Fail

parseObject(text, i) ==
  LET j == skipWhitespace(text, i + 1)
  IN  IF at(text, j) = "}"
        THEN [ok |-> TRUE, next |-> j + 1, value |-> Obj(<<>>)]
        ELSE parseMembers(text, j, <<>>)

parseMembers(text, i, members) ==
  LET j == skipWhitespace(text, i + 1)
      k == skipWhitespace(text, j + 1)
      v == parseValue(text, k)
      m == skipWhitespace(text, v.next)
      withMember == setKey(members, <<"a">>, v.value)
  IN  IF at(text, i) # "\"a\"" THEN Fail
      ELSE IF at(text, j) # ":" THEN Fail
      ELSE IF ~v.ok THEN Fail
      ELSE IF at(text, m) = "}"
        THEN [ok |-> TRUE, next |-> m + 1, value |-> Obj(withMember)]
      ELSE IF at(text, m) = ","
        THEN parseMembers(text, skipWhitespace(text, m + 1), withMember)
      ELSE Fail

JSONparse(text) ==
  LET r == parseValue(text, skipWhitespace(text, 1))
  IN  IF r.ok /\ skipWhitespace(text, r.next) > Len(text)
        THEN [throws |-> FALSE, value |-> r.value]
        ELSE [throws |-> TRUE, value |-> Obj(<<>>)]

\* JSON.parse called outside any try: its SyntaxError leaves the parser.
JSONparseUncaught(text) ==
  [throws |-> JSONparse(text).throws, returned |-> ~JSONparse(text).throws,
   value |-> JSONparse(text).value]

\* download.ts:60-64  try { return JSON.parse(trimmed) } catch { warning }:
\* the value is returned, or the error is caught and control goes on.
tryJSONparse(text) ==
  [throws |-> FALSE, returned |-> ~JSONparse(text).throws,
   value |-> JSONparse(text).value]

\* download.ts:71-87  the loop over the pairs
RECURSIVE parsePairs(_, _)
parsePairs(pairs, result) ==
  IF pairs = <<>> THEN result
  ELSE LET trimmedPair == trim(Head(pairs))
           separatorIndex == indexOf(trimmedPair, "=")
           key == trim(substring(trimmedPair, 0, separatorIndex))
           value == trim(substring(trimmedPair, separatorIndex + 1, Len(trimmedPair)))
       IN  IF trimmedPair = <<>> THEN parsePairs(Tail(pairs), result)
           ELSE IF separatorIndex = -1 THEN parsePairs(Tail(pairs), result)
           ELSE IF key # <<>>
             THEN parsePairs(Tail(pairs), assignProperty(result, key, Str(value)))
           ELSE parsePairs(Tail(pairs), result)

\* download.ts:67-89  the semicolon-separated format
parseDelimited(trimmed) ==
  LET result == parsePairs(split(trimmed, ";"), <<>>)
  IN  IF Len(result) > 0 THEN Returned(result) ELSE Absent

\* The parser giving up when the JSON text does not parse, instead of going
\* on to the delimiter format.
parseKeyValuePairsJsonOnly(input) ==
  IF input = <<>> \/ trim(input) = <<>> THEN Absent
  ELSE LET trimmed == trim(input)
           json == tryJSONparse(trimmed)
       IN  IF startsWith(trimmed, "{")
             THEN IF json.returned THEN Returned(json.value.entries) ELSE Absent
             ELSE parseDelimited(trimmed)

\* download.ts:51-90
parseKeyValuePairs(input) ==
  IF input = <<>> \/ trim(input) = <<>> THEN Absent
  ELSE LET trimmed == trim(input)
           json == tryJSONparse(trimmed)
       IN  IF startsWith(trimmed, "{") /\ json.throws THEN Thrown
           ELSE IF startsWith(trimmed, "{") /\ json.returned
             THEN Returned(json.value.entries)
           ELSE parseDelimited(trimmed)

\* upload.ts:30-74  the same, with the check that the parsed value is an
\* object and no array (39-42)
parseKeyValuePairsUpload(input) ==
  IF input = <<>> \/ trim(input) = <<>> THEN Absent
  ELSE LET trimmed == trim(input)
           json == tryJSONparse(trimmed)
       IN  IF startsWith(trimmed, "{") /\ json.throws THEN Thrown
           ELSE IF startsWith(trimmed, "{") /\ json.returned
             THEN IF json.value.type # "object" THEN Absent
                  ELSE Returned(json.value.entries)
           ELSE parseDelimited(trimmed)

\* download.ts:76-79  the warnings of the loop: one for each pair that is
\* not empty and has no '='
RECURSIVE pairWarnings(_)
pairWarnings(pairs) ==
  IF pairs = <<>> THEN 0
  ELSE LET trimmedPair == trim(Head(pairs))
       IN  IF trimmedPair # <<>> /\ indexOf(trimmedPair, "=") = -1
             THEN 1 + pairWarnings(Tail(pairs))
             ELSE pairWarnings(Tail(pairs))

\* download.ts:51-90  the number of core.warning calls of one call of
\* parseKeyValuePairs: the one of the catch (63) and those of the loop (77)
warnings(input) ==
  IF input = <<>> \/ trim(input) = <<>> THEN 0
  ELSE LET trimmed == trim(input)
       IN  IF startsWith(trimmed, "{")
             THEN IF JSONparse(trimmed).throws
                    THEN 1 + pairWarnings(split(trimmed, ";"))
                    ELSE 0
             ELSE pairWarnings(split(trimmed, ";"))

\* upload.ts:30-74  the same, with the warning for a parsed value that is
\* no object (40)
warningsUpload(input) ==
  IF input = <<>> \/ trim(input) = <<>> THEN 0
  ELSE LET trimmed == trim(input)
       IN  IF startsWith(trimmed, "{")
             THEN IF JSONparse(trimmed).throws
                    THEN 1 + pairWarnings(split(trimmed, ";"))
                    ELSE IF JSONparse(trimmed).value.type # "object" THEN 1 ELSE 0
             ELSE pairWarnings(split(trimmed, ";"))

\* download.ts:96-98
parseHeaders(headersInput) == parseKeyValuePairs(headersInput)

\* upload.ts:80-82
parseMetadata(metadataInput) == parseKeyValuePairsUpload(metadataInput)

\* upload.ts:88-90
parseTags(tagsInput) == parseKeyValuePairsUpload(tagsInput)

(***************************************************************************)
(* src/src/index.ts                                                        *)
(***************************************************************************)

\* The content-length output taken from the header when there is one.
reportedLengthFromHeader(counted, header) == IF header > 0 THEN header ELSE counted

\* A difference to the header reported whatever the header's value.
discrepancyAnyHeader(counted, header) == counted # header

\* index.ts:146  downloadResult.contentLengthHeader > 0 &&
\* actualBytesTransferred !== downloadResult.contentLengthHeader
discrepancy(counted, header) == header > 0 /\ counted # header

\* The detected content type preferred to the override.
effectiveContentTypeDetectedFirst(override, detected) ==
  IF detected # "" THEN detected ELSE override

\* index.ts:120  contentTypeOverride || downloadResult.contentType
effectiveContentType(override, detected) ==
  IF override # "" THEN override ELSE detected

\* index.ts:142 and 154  the content-length output is the relay's count
\* (getBytesTransferred), whatever the header declared
reportedLength(counted, header) == counted

\* index.ts:10-24  objectExists: "true", "false", or "throw"
objectExists(head) ==
  IF head.name = "" THEN "true"
  ELSE IF head.name = "NotFound" \/ head.httpStatusCode = 404 THEN "false"
  ELSE "throw"

\* index.ts:177  control enters the catch block of run() with error e; both
\* branches (181, 250) first await the failure summary's write.
\* The first store error sending run() back to its start (the pipeline is
\* tried once more) instead of into the catch block.
ThrowRestarting(e) ==
  IF e.kind = "storage" /\ caught.kind = "none"
    THEN /\ caught' = e
         /\ summaryWrites' = summaryWrites
         /\ pc' = "start"
    ELSE /\ caught' = e
         /\ summaryWrites' = summaryWrites + 1
         /\ pc' = "awaitFailSummary"

Throw(e) ==
  /\ caught' = e
  /\ summaryWrites' = summaryWrites + 1
  /\ pc' = "awaitFailSummary"

\* index.ts:77-81 and 153-157  the five core.setOutput calls (decimal
\* renderings of the two numbers are kept as the numbers)
Outputs(status, bytes, location, etag, existed) ==
  [statusCode |-> status, contentLength |-> bytes, s3Url |-> location,
   s3Etag |-> etag, objectExisted |-> existed]

\* index.ts:32-56  the inputs of a run.  The credentials of an auth kind
\* that is not selected are never read (download.ts:104-123): they are left
\* unset.
InitInputs ==
  /\ headers \in CallerHeaders
  /\ ifNotExists \in BOOLEAN
  /\ enableRetry \in BOOLEAN
  /\ authType \in AuthTypes
  /\ authUsername \in Usernames
  /\ authPassword \in Passwords
  /\ authToken \in Tokens
  /\ authType # "basic" => (authUsername = "" /\ authPassword = "")
  /\ authType # "bearer" => authToken = ""
  /\ acl \in Acls
  /\ storageClass \in StorageClasses
  /\ contentTypeOverride \in ContentTypeOverrides

\* index.ts:30-36  nothing has happened yet
InitRun ==
  /\ pc = "start"
  /\ caught = NoError
  /\ headCalls = 0
  /\ headAnswer = NoHead
  /\ exists = "unknown"
  /\ downloaderCalls = 0
  /\ config = NoConfig
  /\ attempt = 0
  /\ attemptLog = <<>>
  /\ delays = <<>>
  /\ httpRequests = 0
  /\ requests = <<>>
  /\ responseHeaders = NoHeaders
  /\ downloadResult = NoResult
  /\ relays = 0
  /\ bodyLeft = 0
  /\ bytesTransferred = 0
  /\ chunks = <<>>
  /\ delivered = 0
  /\ sourceState = "none"
  /\ relayState = "none"
  /\ buffered = <<>>
  /\ uploaderCalls = 0
  /\ uploadParams = NoParams
  /\ storeWrites = 0
  /\ writeAnswer = "none"
  /\ uploadError = NoUploadError
  /\ consumerAttached = FALSE
  /\ outputs = {}
  /\ failedSignal = FALSE
  /\ discrepancyWarnings = 0
  /\ summaryWrites = 0

\* A run whose three optional mappings are parsed (index.ts:59-61): headers
\* holds the parsed headers.
Init ==
  /\ InitInputs
  /\ parsePc = "parsed"
  /\ kvInput = <<>>
  /\ kvResult = Absent
  /\ kvWarnings = 0
  /\ InitRun

\* index.ts:104 and download.ts:130-184  run() calls downloadAsStream, which
\* runs up to its first await: the axios(config) call of attempt 0.
CallDownloader ==
  /\ downloaderCalls' = downloaderCalls + 1
  /\ IF generateAuthHeader.throws
       THEN /\ Throw(Err("config", 0, TRUE))
            /\ UNCHANGED <<config, attempt, httpRequests, requests>>
       ELSE /\ config' = buildConfig(mergeHeaders(headers, generateAuthHeader.header))
            /\ attempt' = 0
            /\ httpRequests' = httpRequests + 1
            /\ requests' = Append(requests, axiosRequest(attemptConfig(config', 0)))
            /\ pc' = "awaitHttp"
            /\ UNCHANGED <<caught, summaryWrites>>
  /\ UNCHANGED <<attemptLog, delays>>

\* index.ts:124 and upload.ts:167-264  run() calls uploadStreamToS3, which
\* runs up to its first await: upload.done().
CallUploader ==
  /\ uploaderCalls' = uploaderCalls + 1
  /\ IF validateAclThrows(acl) \/ validateStorageClassThrows(storageClass)
       THEN /\ Throw(Err("config", 0, TRUE))
            /\ UNCHANGED <<storeWrites, uploadParams, consumerAttached>>
       ELSE /\ uploadParams' =
                 [ContentLength |-> contentLengthParam(downloadResult'.contentLengthHeader),
                  ContentType |-> effectiveContentType(contentTypeOverride,
                                                       downloadResult'.contentType)]
            /\ storeWrites' = storeWrites + 1
            \* upload.ts:178-194: with options.ifNotExists an existence check is
            \* awaited before upload.done(), the relay having no consumer yet
            /\ consumerAttached' = ~optionsIfNotExists(ifNotExists)
            /\ pc' = "awaitUpload"
            /\ UNCHANGED <<caught, summaryWrites>>
  /\ UNCHANGED <<writeAnswer, uploadError>>

\* index.ts:30-68  run() up to its first await.
Start ==
  /\ pc = "start"
  /\ IF ifNotExists
       THEN /\ headCalls' = headCalls + 1
            /\ pc' = "awaitHead"
            /\ UNCHANGED <<caught, summaryWrites, downloadVars>>
       ELSE /\ CallDownloader
            /\ UNCHANGED headCalls
  /\ UNCHANGED <<parserVars, inputVars, headAnswer, exists, streamVars, uploadVars, outputs,
                 failedSignal, discrepancyWarnings>>

\* index.ts:68-104  the store answers the HeadObjectCommand.
HeadReturn ==
  /\ pc = "awaitHead"
  /\ \E head \in HeadAnswers :
       /\ headAnswer' = head
       /\ exists' = objectExists(head)
       /\ IF objectExists(head) = "true"
            THEN /\ outputs' = {Outputs(0, 0, s3UrlOf(s3Bucket, s3Key), "", "true")}
                 /\ summaryWrites' = summaryWrites + 1
                 /\ pc' = "awaitSummary"
                 /\ UNCHANGED <<caught, downloadVars>>
          ELSE IF objectExists(head) = "false"
            THEN /\ CallDownloader
                 /\ UNCHANGED outputs
          ELSE /\ Throw(Err("storage", 0, TRUE))
               /\ UNCHANGED <<outputs, downloadVars>>
  /\ UNCHANGED <<parserVars, inputVars, headCalls, streamVars, uploadVars, failedSignal, discrepancyWarnings>>

\* download.ts:184-260 and index.ts:104-136  axios(config) is answered.
HttpReturn ==
  /\ pc = "awaitHttp"
  /\ \E ans \in Answers :
       /\ attemptLog' = Append(attemptLog, ans)
       /\ IF axiosResolves(ans)
            THEN \* 185-186: response is set, the loop is left
                 IF isErrorStatus(ans.status)
                   THEN /\ Throw(Err("status", ans.status, TRUE))
                        /\ UNCHANGED <<attempt, delays, httpRequests,
                                       streamVars, uploadVars>>
                   ELSE \E h \in Headers, type \in ContentTypes, len \in 0..MaxBody :
                          /\ responseHeaders' = [contentLength |-> h, contentType |-> type]
                          /\ relays' = relays + 1
                          /\ bodyLeft' = len
                          /\ bytesTransferred' = 0
                          /\ chunks' = <<>>
                          /\ delivered' = 0
                          /\ sourceState' = "open"
                          /\ relayState' = "open"
                          /\ buffered' = <<>>
                          /\ downloadResult' =
                               [returned |-> TRUE, statusCode |-> ans.status,
                                contentLengthHeader |-> parseContentLength(h),
                                contentType |-> type]
                          /\ CallUploader
                          /\ UNCHANGED <<attempt, delays, httpRequests>>
          ELSE IF isAxiosError(ans)
            THEN IF shouldRetry(attempt, errorStatus(ans))
                   THEN \* 202 continue, 176 attempt++ and the loop test
                        IF attempt + 1 <= maxRetries
                          THEN /\ attempt' = attempt + 1
                               /\ delays' = Append(delays, delay(attempt + 1))
                               /\ pc' = "awaitDelay"
                               /\ UNCHANGED <<caught, summaryWrites, httpRequests,
                                              streamVars, uploadVars>>
                          ELSE \* 215-217
                               /\ Throw(Err("request", errorStatus(ans), TRUE))
                               /\ UNCHANGED <<attempt, delays, httpRequests,
                                              streamVars, uploadVars>>
                   ELSE \* 204-208
                        /\ Throw(Err("request", errorStatus(ans), TRUE))
                        /\ UNCHANGED <<attempt, delays, httpRequests,
                                       streamVars, uploadVars>>
          ELSE \* 211
               /\ Throw(Err("thrown", 0, ans.kind = "thrownError"))
               /\ UNCHANGED <<attempt, delays, httpRequests, streamVars, uploadVars>>
  /\ UNCHANGED <<parserVars, inputVars, headCalls, headAnswer, exists, downloaderCalls,
                 config, requests, outputs, failedSignal, discrepancyWarnings>>

\* download.ts:181-184  the backoff timer fires and the next axios(config)
\* call is issued.
DelayElapsed ==
  /\ pc = "awaitDelay"
  /\ httpRequests' = httpRequests + 1
  /\ requests' = Append(requests, axiosRequest(attemptConfig(config, attempt)))
  /\ pc' = "awaitHttp"
  /\ UNCHANGED <<parserVars, inputVars, caught, headCalls, headAnswer, exists, downloaderCalls,
                 config, attempt,
                 attemptLog, delays, streamVars, uploadVars, outputs,
                 failedSignal, discrepancyWarnings, summaryWrites>>

\* download.ts:26-28 and 247  the response emits a chunk and pipe() writes
\* it to the relay, while the store write is in progress or, when
\* uploadStreamToS3 threw, while run() awaits the failure summary. With the
\* reader of the store write attached the relay holds the chunk until it is
\* read; with no reader the relay is flowing for its 'data' listener alone,
\* which counts the chunk, and the chunk goes to nobody.
Chunk ==
  /\ pc \in {"awaitUpload", "awaitFailSummary"}
  /\ sourceState = "open"
  /\ relayState = "open"
  /\ bodyLeft > 0
  /\ pipeFlows(buffered)
  /\ \E n \in 1..bodyLeft :
       /\ bodyLeft' = bodyLeft - n
       /\ IF consumerAttached
            THEN /\ buffered' = Append(buffered, n)
                 /\ UNCHANGED <<bytesTransferred, chunks, delivered>>
            ELSE /\ bytesTransferred' = countChunk(bytesTransferred, n)
                 /\ chunks' = Append(chunks, n)
                 /\ delivered' = passThrough(delivered, consumerAttached, n)
                 /\ UNCHANGED buffered
  /\ UNCHANGED <<parserVars, inputVars, pc, caught, headCalls, headAnswer, exists, downloadVars,
                 responseHeaders, downloadResult, relays, sourceState, relayState,
                 uploadVars, outputs, failedSignal, discrepancyWarnings, summaryWrites>>

\* download.ts:26-28 and upload.ts:264  the reader of the store write reads
\* what the relay holds: read() hands it over and emits it as 'data', so the
\* relay's listener counts it at that moment.
Read ==
  /\ pc = "awaitUpload"
  /\ consumerAttached
  /\ relayState = "open"
  /\ buffered # <<>>
  /\ bytesTransferred' = countChunk(bytesTransferred, Sum(buffered))
  /\ chunks' = Append(chunks, Sum(buffered))
  /\ delivered' = passThrough(delivered, consumerAttached, Sum(buffered))
  /\ buffered' = <<>>
  /\ UNCHANGED <<parserVars, inputVars, pc, caught, headCalls, headAnswer, exists, downloadVars,
                 responseHeaders, downloadResult, relays, bodyLeft, sourceState, relayState,
                 uploadVars, outputs, failedSignal, discrepancyWarnings, summaryWrites>>

\* download.ts:247  the response ends after its last chunk, and pipe() ends
\* the relay.
End ==
  /\ pc \in {"awaitUpload", "awaitFailSummary"}
  /\ sourceState = "open"
  /\ bodyLeft = 0
  /\ pipeFlows(buffered)
  /\ sourceState' = "ended"
  /\ relayState' = IF relayState = "open" THEN "ended" ELSE relayState
  /\ UNCHANGED <<parserVars, inputVars, pc, caught, headCalls, headAnswer, exists, downloadVars,
                 responseHeaders, downloadResult, relays, bodyLeft, bytesTransferred, chunks,
                 delivered, buffered,
                 uploadVars, outputs, failedSignal, discrepancyWarnings, summaryWrites>>

\* download.ts:250-252  the response emits 'error' before its end: the
\* handler destroys the relay with that error, and what the relay held is
\* discarded.
BodyError ==
  /\ pc \in {"awaitUpload", "awaitFailSummary"}
  /\ sourceState = "open"
  /\ sourceState' = "errored"
  /\ relayState' = onSourceError(relayState)
  /\ buffered' = IF relayState' = "errored" THEN <<>> ELSE buffered
  /\ UNCHANGED <<parserVars, inputVars, pc, caught, headCalls, headAnswer, exists, downloadVars,
                 responseHeaders, downloadResult, relays, bodyLeft, bytesTransferred, chunks,
                 delivered,
                 uploadVars, outputs, failedSignal, discrepancyWarnings, summaryWrites>>

\* upload.ts:264-282 and index.ts:138-174  upload.done() is answered: an
\* acknowledgement once the reader has reached the end of the relay, or an
\* error: of the store at any time, or the one the relay was destroyed with.
\* Nothing in the catch of upload.ts:277-282 or of index.ts:177 touches the
\* response, which stays as it is.
UploadReturn ==
  /\ pc = "awaitUpload"
  /\ \E w \in WriteAnswers :
       /\ writeAnswer' = w
       /\ IF w = "error"
            THEN /\ uploadError' = [thrown |-> TRUE,
                                     message |-> uploadErrorMessage(StoreErrorMessage)]
                 /\ Throw(Err("storage", 0, TRUE))
                 /\ UNCHANGED <<outputs, discrepancyWarnings>>
            ELSE /\ writeCanComplete(relayState, buffered)
                 /\ discrepancyWarnings' =
                      IF discrepancy(bytesTransferred, downloadResult.contentLengthHeader)
                        THEN discrepancyWarnings + 1
                        ELSE discrepancyWarnings
                 /\ outputs' =
                      {Outputs(downloadResult.statusCode,
                               reportedLength(bytesTransferred,
                                              downloadResult.contentLengthHeader),
                               s3UrlOf(s3Bucket, s3Key), etagOf(w), "false")}
                 /\ summaryWrites' = summaryWrites + 1
                 /\ pc' = "awaitSummary"
                 /\ UNCHANGED <<caught, uploadError>>
  /\ UNCHANGED <<parserVars, inputVars, headCalls, headAnswer, exists, downloadVars, streamVars,
                 uploaderCalls, uploadParams, storeWrites, consumerAttached,
                 failedSignal>>

\* index.ts:84-95 and 164-176  the success summary's write() is answered;
\* a rejection is thrown inside the try block.
SummaryReturn ==
  /\ pc = "awaitSummary"
  /\ \E ok \in BOOLEAN :
       IF ok
         THEN /\ pc' = "done"
              /\ UNCHANGED <<caught, summaryWrites>>
         ELSE Throw(Err("summary", 0, TRUE))
  /\ UNCHANGED <<parserVars, inputVars, headCalls, headAnswer, exists, downloadVars, streamVars, uploadVars,
                 outputs, failedSignal, discrepancyWarnings>>

\* index.ts:238-249 and 255-267  the failure summary's write() is answered:
\* core.setFailed follows it; a rejection leaves the catch block, and run()
\* rejects without core.setFailed.
FailSummaryReturn ==
  /\ pc = "awaitFailSummary"
  /\ \E ok \in BOOLEAN :
       IF ok
         THEN /\ failedSignal' = TRUE
              /\ pc' = "failed"
         ELSE /\ pc' = "rejected"
              /\ UNCHANGED failedSignal
  /\ UNCHANGED <<parserVars, inputVars, caught, headCalls, headAnswer, exists, downloadVars, streamVars,
                 uploadVars, outputs, discrepancyWarnings, summaryWrites>>

Next ==
  \/ Start
  \/ HeadReturn
  \/ HttpReturn
  \/ DelayElapsed
  \/ Chunk
  \/ Read
  \/ End
  \/ BodyError
  \/ UploadReturn
  \/ SummaryReturn
  \/ FailSummaryReturn

Spec == Init /\ [][Next]_vars

(***************************************************************************)
(* The run under the scheduling the code relies on: every external call    *)
(* (existence check, HTTP attempt, backoff timer, summary write) is        *)
(* answered, the response body goes on as long as it can flow and then     *)
(* ends or fails, the reader of the store write takes what the relay       *)
(* holds, and the store write is answered once the relay has ended or has  *)
(* been destroyed. An error of the store itself may come, but is not       *)
(* relied on. The inputs that do not decide which calls are made (caller   *)
(* headers, content type, which credential is missing) are held fixed.     *)
(***************************************************************************)
LiveInit ==
  /\ Init
  /\ headers = <<>>
  /\ contentTypeOverride = ""
  /\ storageClass = "STANDARD"
  /\ authType = "none" \/ (authType = "basic" /\ authUsername = "user" /\ authPassword = "")

\* upload.ts:264  upload.done() settles when its reader has seen the end of
\* the relay or the relay's error.
UploadSettles ==
  /\ relayState \in {"ended", "errored"}
  /\ UploadReturn

Fairness ==
  /\ WF_vars(Start)
  /\ WF_vars(HeadReturn)
  /\ WF_vars(HttpReturn)
  /\ WF_vars(DelayElapsed)
  /\ WF_vars(Chunk)
  /\ WF_vars(Read)
  /\ WF_vars(End \/ BodyError)
  /\ WF_vars(UploadSettles)
  /\ WF_vars(SummaryReturn)
  /\ WF_vars(FailSummaryReturn)

LiveSpec == LiveInit /\ [][Next]_vars /\ Fairness

(***************************************************************************)
(* The parser calls of run() (index.ts:59-61), each on every input text.   *)
(* The three texts are taken equal: the calls do not depend on each other. *)
(***************************************************************************)
ParserInit ==
  /\ parsePc = "parseHeaders"
  /\ kvInput \in Inputs
  /\ kvResult = Absent
  /\ kvWarnings = 0
  /\ headers = <<>>
  /\ ifNotExists = FALSE
  /\ enableRetry = FALSE
  /\ authType = "none"
  /\ authUsername = ""
  /\ authPassword = ""
  /\ authToken = ""
  /\ acl = ""
  /\ storageClass = "STANDARD"
  /\ contentTypeOverride = ""
  /\ InitRun

\* index.ts:59-61 and 177  a parser call returns, or its error is caught by
\* run()
ParserReturn(result, warned, then) ==
  /\ kvResult' = result
  /\ kvWarnings' = warned
  /\ parsePc' = IF result.throws THEN "failed" ELSE then
  /\ UNCHANGED <<kvInput, inputVars, runVars>>

\* index.ts:59  const headers = parseHeaders(headersInput)
ParseHeaders ==
  /\ parsePc = "parseHeaders"
  /\ ParserReturn(parseHeaders(kvInput), warnings(kvInput), "parseMetadata")

\* index.ts:60  const metadata = parseMetadata(metadataInput)
ParseMetadata ==
  /\ parsePc = "parseMetadata"
  /\ ParserReturn(parseMetadata(kvInput), warningsUpload(kvInput), "parseTags")

\* index.ts:61  const tags = parseTags(tagsInput)
ParseTags ==
  /\ parsePc = "parseTags"
  /\ ParserReturn(parseTags(kvInput), warningsUpload(kvInput), "parsed")

ParserNext ==
  \/ ParseHeaders
  \/ ParseMetadata
  \/ ParseTags

ParserSpec == ParserInit /\ [][ParserNext]_vars

\* The run has ended: run() has resolved ("done", "failed") or rejected.
Terminated == pc \in {"done", "failed", "rejected"}

(***************************************************************************)
(* The run's states, as the claims name them.                              *)
(***************************************************************************)

\* The catch block of run() has been entered: the run is in its failure
\* state, whether or not core.setFailed is then reached.
InFailure == pc \in {"awaitFailSummary", "failed", "rejected"}

\* index.ts:30-270  the state of the Orchestrator that run() is in when it
\* is suspended at, or has ended in, p: Done from the point the result is
\* emitted (index.ts:77-81, 153-157), Failed from the entry of the catch
\* block (index.ts:177).
stage(p) ==
  CASE p = "start" -> "Init"
    [] p = "awaitHead" -> "CheckExists"
    [] p \in {"awaitHttp", "awaitDelay"} -> "Downloading"
    [] p = "awaitUpload" -> "Uploading"
    [] p \in {"awaitSummary", "done"} -> "Done"
    [] p \in {"awaitFailSummary", "failed", "rejected"} -> "Failed"

\* The place of a state in the pipeline; the two terminal states share the
\* last place.
place(st) ==
  CASE st = "Init" -> 0
    [] st = "CheckExists" -> 1
    [] st = "Downloading" -> 2
    [] st = "Uploading" -> 3
    [] st \in {"Done", "Failed"} -> 4

\* The run ended in success: run() resolved without entering its catch block.
Succeeded == pc = "done"

\* An attempt's answer that is a failure of the attempt: no response, a
\* throw, or a response with an error status.
FailedAnswer(ans) == ans.kind # "response" \/ ans.status >= 400

\* The attempts answered so far.
Attempts == 1..Len(attemptLog)

\* Attempt i (counted from 1) has been followed by another attempt, or the
\* backoff delay of the next attempt is running.
Retried(i) == i < Len(attemptLog) \/ (i = Len(attemptLog) /\ pc = "awaitDelay")

(***************************************************************************)
(* Claims                                                                  *)
(***************************************************************************)

\* C1: when skip-if-exists is requested and the Existence Check reports that
\* the object exists, the run finishes successfully without invoking the
\* Downloader (no HTTP request) or the Uploader, and the emitted result has
\* byte count 0, an empty integrity tag and objectExisted = "true".
C1_SkipFinishesSuccessfully ==
  (ifNotExists /\ exists = "true") =>
    /\ downloaderCalls = 0
    /\ httpRequests = 0
    /\ uploaderCalls = 0
    /\ \A o \in outputs :
         o.contentLength = 0 /\ o.s3Etag = "" /\ o.objectExisted = "true"
    /\ outputs # {}
    /\ Terminated => Succeeded

\* C2: no output value is emitted in a run that ends with the failure
\* signal: at the end of a run, outputs have been set only if the run ended
\* in success, and the failure signal has been raised only if no output was
\* set.
C2_NoOutputsOnFailure ==
  Terminated =>
    /\ outputs # {} => Succeeded
    /\ failedSignal => outputs = {}

\* C3: every error raised by the Existence Check, the Downloader or the
\* Uploader ends with the Orchestrator raising the failure signal, also when
\* writing the failure summary fails.
C3_FailureSignalRaised ==
  (Terminated /\ caught.kind \in {"storage", "config", "status", "request", "thrown"})
    => failedSignal

\* C4: with enableRetry, an attempt answered by a response with a status in
\* {408, 429, 500, 502, 503, 504} is retried while retries are left; answers
\* 503, 503, 200 give exactly 3 attempts, the delays 1000 and 2000, and the
\* result of the third attempt.
C4_RetryableStatusIsRetried ==
  enableRetry =>
    /\ \A i \in Attempts :
         (/\ i <= 3
          /\ attemptLog[i].kind = "response"
          /\ attemptLog[i].status \in {408, 429, 500, 502, 503, 504})
           => Retried(i)
    /\ (/\ Terminated
        /\ Len(attemptLog) >= 3
        /\ attemptLog[1] = Response(503)
        /\ attemptLog[2] = Response(503)
        /\ attemptLog[3] = Response(200))
         => /\ Len(attemptLog) = 3
            /\ delays = <<1000, 2000>>
            /\ downloadResult.returned
            /\ downloadResult.statusCode = 200

\* C5: with enableRetry false, the Downloader makes exactly one HTTP attempt
\* whatever the failure (no response, or any response status), waits no
\* backoff delay, and the run ends in the failure state.
C5_NoRetryWhenDisabled ==
  ~enableRetry =>
    /\ httpRequests <= 1
    /\ Len(attemptLog) <= 1
    /\ delays = <<>>
    /\ \A i \in Attempts :
         FailedAnswer(attemptLog[i]) =>
           /\ InFailure
           /\ httpRequests = 1
           /\ uploaderCalls = 0
           /\ Terminated => ~Succeeded

C5_Witness ==
  /\ ~enableRetry
  /\ Terminated
  /\ attemptLog = <<Response(404)>>

\* C6: in any run the Downloader makes at most 4 HTTP attempts; with
\* enableRetry and every attempt failing without a response, exactly 4
\* attempts are made and the run then ends in the failure state.
C6_AtMostFourAttempts ==
  /\ httpRequests <= 4
  /\ Len(attemptLog) <= 4
  /\ (/\ enableRetry
      /\ Terminated
      /\ attemptLog # <<>>
      /\ \A i \in Attempts : attemptLog[i] = NoResponse)
       => /\ Len(attemptLog) = 4
          /\ httpRequests = 4
          /\ InFailure

C6_Witness ==
  /\ enableRetry
  /\ Terminated
  /\ attemptLog = <<NoResponse, NoResponse, NoResponse, NoResponse>>

\* C7: the backoff delay before retry attempt n (n = 1, 2, 3) is exactly
\* 1000 * 2^(n-1) ms; no delay is waited before the initial attempt, and a
\* delay is waited only when another attempt follows it.
C7_BackoffSequence ==
  /\ \A n \in 1..Len(delays) : n <= 3 /\ delays[n] = <<1000, 2000, 4000>>[n]
  /\ httpRequests <= 1 /\ pc # "awaitDelay" => delays = <<>>
  /\ pc = "awaitDelay" => Len(delays) = httpRequests
  /\ (httpRequests >= 1 /\ pc # "awaitDelay") => Len(delays) = httpRequests - 1

C7_Witness ==
  /\ Terminated
  /\ delays = <<1000, 2000, 4000>>
  /\ httpRequests = 4

\* C8: a failed attempt is followed by another attempt only if retry is
\* enabled, fewer than 3 retries have been made, and either no response was
\* received or the response status is in {408, 429, 500, 502, 503, 504}; a
\* response with any other error status is never retried and ends the run in
\* the failure state after that attempt.
C8_RetryOnlyIf ==
  \A i \in Attempts :
    /\ Retried(i) =>
         /\ enableRetry
         /\ i - 1 < 3
         /\ \/ attemptLog[i].kind = "noresponse"
            \/ /\ attemptLog[i].kind = "response"
               /\ attemptLog[i].status \in {408, 429, 500, 502, 503, 504}
    /\ (/\ attemptLog[i].kind = "response"
        /\ attemptLog[i].status >= 400
        /\ attemptLog[i].status \notin {408, 429, 500, 502, 503, 504})
         => /\ ~Retried(i)
            /\ InFailure
            /\ httpRequests = i

C8_Witness ==
  /\ Terminated
  /\ attemptLog = <<NoResponse, Response(404)>>

\* C9: when the response finally obtained has status >= 400, the Downloader
\* fails with an error carrying that status, no relay is handed out and the
\* Uploader is never invoked; the Uploader is invoked only after a response
\* with status < 400.
C9_ErrorStatusIsTerminal ==
  /\ \A i \in Attempts :
       (/\ i = Len(attemptLog)
        /\ pc # "awaitDelay"
        /\ attemptLog[i].kind = "response"
        /\ attemptLog[i].status >= 400)
         => /\ InFailure
            /\ caught.kind \in {"status", "request"}
            /\ caught.status = attemptLog[i].status
            /\ ~downloadResult.returned
            /\ relays = 0
            /\ uploaderCalls = 0
  /\ uploaderCalls > 0 =>
       /\ attemptLog # <<>>
       /\ attemptLog[Len(attemptLog)].kind = "response"
       /\ attemptLog[Len(attemptLog)].status < 400

C9_Witness ==
  /\ Terminated
  /\ attemptLog = <<Response(404)>>
  /\ caught.status = 404

\* C10: with authType basic and the username or the password missing, or
\* authType bearer and the token missing, the Downloader fails with a
\* configuration error and no HTTP request is sent: the check precedes the
\* first attempt and is never retried.
C10_MissingCredentialSendsNothing ==
  (\/ authType = "basic" /\ (authUsername = "" \/ authPassword = "")
   \/ authType = "bearer" /\ authToken = "")
    => /\ httpRequests = 0
       /\ attemptLog = <<>>
       /\ delays = <<>>
       /\ downloaderCalls <= 1
       /\ downloaderCalls = 1 =>
            /\ InFailure
            /\ caught.kind = "config"
            /\ uploaderCalls = 0

C10_Witness ==
  /\ authType = "basic"
  /\ authUsername = "user"
  /\ authPassword = ""
  /\ enableRetry
  /\ downloaderCalls = 1
  /\ Terminated

\* C11: an unrecognized access-control policy or storage tier makes the run
\* fail with a configuration error before any network call: no existence
\* check, no HTTP request and no store write has been started when the
\* error is raised.
C11_InvalidEnumBeforeNetwork ==
  (acl = "not-an-acl" \/ storageClass = "not-a-class") =>
    /\ Terminated => (InFailure /\ caught.kind = "config")
    /\ (InFailure /\ caught.kind = "config") =>
         /\ headCalls = 0
         /\ httpRequests = 0
         /\ storeWrites = 0

\* C12: every configuration error (missing auth credential, invalid
\* enumerated value) is raised before any network I/O of the run, the
\* Existence Check included.
\* In particular, with ifNotExists and a missing auth credential the run
\* fails without having queried the destination store.
C12_ConfigErrorBeforeAnyIO ==
  /\ (InFailure /\ caught.kind = "config") =>
       /\ headCalls = 0
       /\ httpRequests = 0
       /\ storeWrites = 0
  /\ (/\ ifNotExists
      /\ \/ authType = "basic" /\ (authUsername = "" \/ authPassword = "")
         \/ authType = "bearer" /\ authToken = "")
       => /\ headCalls = 0
          /\ Terminated => (InFailure /\ caught.kind = "config")

\* C13: for any sequence of chunks totalling N bytes pushed through the
\* relay, the relay's count after end-of-stream is exactly N, however the N
\* bytes are split into chunks.
C13_CountIsTotalOfChunks ==
  relays > 0 =>
    /\ bytesTransferred = Sum(chunks)
    /\ \A i \in 1..Len(chunks) : chunks[i] >= 1
    /\ bodyLeft = 0 => bytesTransferred = Sum(chunks)

C13_Witness ==
  /\ bodyLeft = 0
  /\ chunks = <<1, 1>>
  /\ bytesTransferred = 2

\* C14: on a successful non-skipped run the contentLength output is the
\* relay's observed byte total, never the header-declared length; without a
\* Content-Length header (header value 0) and a body of N > 0 bytes the
\* output is N, and the header is no reason for the run to fail: once the
\* store has acknowledged the write the outputs are emitted.
C14_OutputIsCountedBytes ==
  /\ \A o \in outputs :
       o.objectExisted = "false" =>
         /\ o.contentLength = bytesTransferred
         /\ o.contentLength = Sum(chunks)
         /\ (downloadResult.contentLengthHeader = 0 /\ Sum(chunks) > 0)
              => o.contentLength > 0
  /\ writeAnswer \in {"etag", "noEtag"} => outputs # {}

C14_Witness ==
  /\ Succeeded
  /\ downloadResult.returned
  /\ downloadResult.contentLengthHeader = 0
  /\ Sum(chunks) = 2
  /\ \E o \in outputs : o.contentLength = 2 /\ o.objectExisted = "false"

\* C15: when ifNotExists is false, or the Existence Check reports false, a
\* run whose download and upload both succeed has invoked the Downloader and
\* the Uploader, and the emitted result has objectExisted = "false" and a
\* non-empty integrity tag, whatever the store's acknowledgement contains.
C15_FullPathResult ==
  ((~ifNotExists \/ exists = "false") /\ writeAnswer \in {"etag", "noEtag"}) =>
    /\ downloaderCalls = 1
    /\ uploaderCalls = 1
    /\ outputs # {}
    /\ \A o \in outputs : o.objectExisted = "false" /\ o.s3Etag # ""

\* C16: the Existence Check returns false only for a not-found outcome of
\* the store (the object is missing) and true only when the store confirms
\* the object; every other store error (permission denial, network failure,
\* a missing bucket) ends the run in the failure state with that error and
\* no download is started after it.
C16_OnlyNotFoundIsAbsent ==
  /\ exists = "false" => headAnswer.cause = "objectMissing"
  /\ exists = "true" => headAnswer.cause = "objectPresent"
  /\ headAnswer.cause \in {"forbidden", "network", "bucketMissing"} =>
       /\ exists = "throw"
       /\ InFailure /\ caught.kind = "storage"
       /\ downloaderCalls = 0
       /\ httpRequests = 0

ParsedText == trim(kvInput)
ParserCalled == parsePc # "parseHeaders"

\* C18: the Key-Value Parser never raises an error, whatever the input
\* string: no parser call throws and the run never enters the failure state
\* in its parsing stage; malformed input (text that starts with '{' but is
\* no JSON) degrades to the pairs that could be parsed, and to "absent"
\* when it has no '=' at all.
C18_ParserNeverRaises ==
  /\ ~kvResult.throws
  /\ parsePc # "failed"
  /\ (/\ ParserCalled
      /\ startsWith(ParsedText, "{") => JSONparse(ParsedText).throws
      /\ \A i \in 1..Len(kvInput) : kvInput[i] # "=")
       => ~kvResult.defined

C18_Witness ==
  /\ parsePc = "parsed"
  /\ startsWith(ParsedText, "{")
  /\ JSONparse(ParsedText).throws
  /\ kvResult.defined
  /\ ~kvResult.throws

\* C19: for every input in delimiter format the parser splits on ';', trims
\* each segment, skips empty segments and segments without '=', splits each
\* remaining segment on its first '=' only, trims key and value, skips a
\* segment whose key is empty and accepts an empty value; the result maps
\* each surviving key to its value, a later duplicate overriding an earlier
\* one.
C19_DelimiterFormat ==
  (ParserCalled /\ ~startsWith(ParsedText, "{")) =>
    LET text == kvInput
        cuts == {0, Len(text) + 1} \cup {i \in 1..Len(text) : text[i] = ";"}
        segments == {pq \in cuts \X cuts :
                       /\ pq[1] < pq[2]
                       /\ \A c \in cuts : ~(pq[1] < c /\ c < pq[2])}
        segment(pq) == trim(SubSeq(text, pq[1] + 1, pq[2] - 1))
        hasEquals(x) == \E i \in 1..Len(x) : x[i] = "="
        firstEquals(x) ==
          CHOOSE i \in 1..Len(x) : x[i] = "=" /\ \A j \in 1..i - 1 : x[j] # "="
        keyOf(x) == trim(SubSeq(x, 1, firstEquals(x) - 1))
        valueOf(x) == trim(SubSeq(x, firstEquals(x) + 1, Len(x)))
        surviving == {pq \in segments :
                        /\ segment(pq) # <<>>
                        /\ hasEquals(segment(pq))
                        /\ keyOf(segment(pq)) # <<>>}
        expected == {<<keyOf(segment(pq)), valueOf(segment(pq))>> :
                       pq \in {a \in surviving :
                                 \A b \in surviving :
                                   b[1] > a[1] =>
                                     keyOf(segment(b)) # keyOf(segment(a))}}
        entries == kvResult.entries
    IN  /\ {<<entries[i][1], entries[i][2].text>> : i \in 1..Len(entries)} = expected
        /\ \A i \in 1..Len(entries) : entries[i][2].type = "string"
        /\ \A i, j \in 1..Len(entries) : entries[i][1] = entries[j][1] => i = j

\* C20: for every valid JSON-object input the parser's result has exactly
\* the object's keys and every value of the result is a string.
C20_JsonValuesAreStrings ==
  (/\ ParserCalled
   /\ startsWith(ParsedText, "{")
   /\ ~JSONparse(ParsedText).throws) =>
    LET object == JSONparse(ParsedText).value.entries
        entries == kvResult.entries
    IN  /\ kvResult.defined
        /\ {entries[i][1] : i \in 1..Len(entries)}
             = {object[i][1] : i \in 1..Len(object)}
        /\ \A i \in 1..Len(entries) : entries[i][2].type = "string"

\* C21: the Key-Value Parser never returns an empty mapping: for every
\* input, the JSON object '{}' and inputs whose segments are all skipped
\* included, the result is absent or a mapping with at least one key.
C21_NeverEmptyMapping ==
  (ParserCalled /\ kvResult.defined) => Len(kvResult.entries) >= 1

\* C22: the Key-Value Parser returns "absent" for an undefined input, the
\* empty string and every whitespace-only string, without error or warning.
C22_BlankInputIsAbsent ==
  (ParserCalled /\ \A i \in 1..Len(kvInput) : kvInput[i] = " ") =>
    /\ ~kvResult.defined
    /\ kvResult.entries = <<>>
    /\ ~kvResult.throws
    /\ parsePc # "failed"
    /\ kvWarnings = 0

C22_Witness ==
  /\ parsePc = "parsed"
  /\ kvInput = <<" ", " ", " ">>
  /\ ~kvResult.defined
  /\ kvWarnings = 0

C24_LengthHintOnlyWhenPositive ==
  storeWrites > 0 =>
    LET h == responseHeaders.contentLength
    IN  uploadParams.ContentLength =
          IF h.kind = "num" /\ h.n > 0
            THEN [defined |-> TRUE, value |-> h.n]
            ELSE [defined |-> FALSE, value |-> 0]

C24_Witness ==
  /\ storeWrites = 1
  /\ responseHeaders.contentLength = Header("num", -1)
  /\ ~uploadParams.ContentLength.defined
  /\ pc = "awaitUpload"

\* C25: the content type given to the Uploader is the caller's override
\* whenever one is supplied, and the Downloader's detected content type
\* (possibly absent) otherwise.
C25_OverrideBeforeDetectedType ==
  storeWrites > 0 =>
    uploadParams.ContentType =
      IF contentTypeOverride # "" THEN contentTypeOverride
      ELSE responseHeaders.contentType

C25_Witness ==
  /\ storeWrites = 1
  /\ contentTypeOverride = "text/csv"
  /\ responseHeaders.contentType = "application/json"
  /\ uploadParams.ContentType = "text/csv"

\* C26: any error of the store during the write is re-raised by the Uploader
\* as an error whose message identifies the failed destination, its bucket
\* and its key, and the run ends in the failure state.
C26_UploadErrorNamesDestination ==
  writeAnswer = "error" =>
    /\ InFailure
    /\ caught.kind = "storage"
    /\ uploadError.thrown
    /\ \E i \in 1..Len(uploadError.message) : uploadError.message[i] = s3Bucket
    /\ \E i \in 1..Len(uploadError.message) : uploadError.message[i] = s3Key

\* C27: store operations are never retried: in any run, with or without
\* enableRetry, the existence check is sent at most once and the store write
\* is started at most once, and a store failure ends the run in the failure
\* state without a further download or write attempt.
C27_StoreOperationsNotRetried ==
  /\ headCalls <= 1
  /\ uploaderCalls <= 1
  /\ storeWrites <= 1
  /\ exists = "throw" =>
       /\ InFailure
       /\ headCalls = 1
       /\ downloaderCalls = 0
       /\ httpRequests = 0
       /\ storeWrites = 0
  /\ writeAnswer = "error" =>
       /\ InFailure
       /\ storeWrites = 1
       /\ downloaderCalls = 1
       /\ httpRequests = Len(attemptLog)

C27_Witness ==
  /\ enableRetry
  /\ writeAnswer = "error"
  /\ Terminated
  /\ storeWrites = 1
  /\ Len(attemptLog) >= 2

\* C28: the run-summary renderer has no effect on the outcome of a run:
\* whether writing the summary succeeds or fails, a run that emitted its
\* outputs ends in success without the failure signal, and a run that
\* caught an error ends failed with the failure signal and without outputs.
C28_SummaryHasNoEffect ==
  Terminated =>
    /\ outputs # {} => (Succeeded /\ ~failedSignal)
    /\ outputs = {} => (pc = "failed" /\ failedSignal)

\* C29: every chunk counted by the relay is also delivered to the store
\* write: whenever chunks arrive relative to the start of the write, the
\* bytes the store write has received equal the relay's count, up to and at
\* end-of-stream, so no chunk is counted and then dropped.
C29_CountedChunksAreDelivered ==
  storeWrites > 0 => delivered = bytesTransferred

C29_Witness ==
  /\ writeAnswer \in {"etag", "noEtag"}
  /\ bodyLeft = 0
  /\ Len(chunks) >= 2
  /\ delivered = Sum(chunks)

\* C30: the Orchestrator is a strict linear pipeline: every step of a run
\* stays in its state or moves to a later one of Init, CheckExists,
\* Downloading, Uploading, so no state is entered twice or re-entered; the
\* Existence Check is only visited when ifNotExists; and of the two terminal
\* states Done and Failed the run enters one and never moves to the other.
C30_StrictLinearPipeline ==
  /\ [][stage(pc') = stage(pc) \/ place(stage(pc')) > place(stage(pc))]_vars
  /\ [](stage(pc) = "CheckExists" => ifNotExists)
  /\ [](headCalls <= 1 /\ downloaderCalls <= 1 /\ uploaderCalls <= 1)

\* C35: the relay's byte counter starts at 0 and never decreases: it is 0
\* as long as no chunk has been observed, each observed chunk adds exactly
\* its byte length, and no step decrements or resets it.
C35_CounterNeverDecreases ==
  /\ [](chunks = <<>> => bytesTransferred = 0)
  /\ [][bytesTransferred' >= bytesTransferred]_vars
  /\ [][chunks' # chunks =>
          /\ Len(chunks') = Len(chunks) + 1
          /\ bytesTransferred' = bytesTransferred + chunks'[Len(chunks')]]_vars
  /\ [][chunks' = chunks => bytesTransferred' = bytesTransferred]_vars

C35_Witness ==
  /\ Len(chunks) = 2
  /\ bytesTransferred = 2
  /\ Terminated

\* C36: when an input starting with '{' fails to parse as JSON, the parser
\* does not fail and does not return absent directly: it warns and its
\* result is exactly what the delimiter format yields for the same trimmed
\* input.
C36_JsonFailureFallsThrough ==
  (/\ ParserCalled
   /\ startsWith(ParsedText, "{")
   /\ JSONparse(ParsedText).throws)
    => /\ ~kvResult.throws
       /\ parsePc # "failed"
       /\ kvWarnings >= 1
       /\ kvResult = parseDelimited(ParsedText)

C36_Witness ==
  /\ parsePc = "parseMetadata"
  /\ startsWith(ParsedText, "{")
  /\ JSONparse(ParsedText).throws
  /\ kvResult.defined
  /\ Len(kvResult.entries) >= 1
  /\ kvWarnings >= 1

\* C37: the byte count reflects only the response of the attempt that
\* succeeded: at most one relay is created in a run, exactly one once the
\* Uploader is called, and only after the retry loop has ended with a
\* response of status < 400; the attempts before it had no response, and as
\* long as there is no relay nothing is counted or delivered.
C37_OneRelayAfterRetryLoop ==
  /\ relays <= 1
  /\ uploaderCalls > 0 => relays = 1
  /\ pc \in {"start", "awaitHead", "awaitHttp", "awaitDelay"} => relays = 0
  /\ relays = 0 => (chunks = <<>> /\ bytesTransferred = 0 /\ delivered = 0)
  /\ relays = 1 =>
       /\ attemptLog # <<>>
       /\ attemptLog[Len(attemptLog)].kind = "response"
       /\ attemptLog[Len(attemptLog)].status < 400
       /\ httpRequests = Len(attemptLog)
       /\ \A i \in 1..Len(attemptLog) - 1 : attemptLog[i].kind = "noresponse"
       /\ downloadResult.statusCode = attemptLog[Len(attemptLog)].status

C37_Witness ==
  /\ Succeeded
  /\ attemptLog = <<NoResponse, NoResponse, Response(200)>>
  /\ relays = 1
  /\ bytesTransferred = 2

\* C38: every retry attempt sends the same request as the first attempt:
\* one request is sent per attempt, and the URL, the method, the headers
\* (with the synthesized Authorization header), the body and the timeout of
\* each are those of the first.
C38_RetriesSendSameRequest ==
  /\ Len(requests) = httpRequests
  /\ \A i \in 1..Len(requests) :
       /\ requests[i] = requests[1]
       /\ requests[i].url = "https://example.com/data.json"
       /\ requests[i].method = "POST"
       /\ requests[i].data = "payload"
       /\ requests[i].timeout = 900000
       /\ authType = "bearer" =>
            \E k \in 1..Len(requests[i].headers) :
              requests[i].headers[k][2] = <<"Bearer", authToken>>

C38_Witness ==
  /\ Len(requests) = 4
  /\ authType = "bearer"
  /\ requests[4] = requests[1]
  /\ Terminated

\* C31: an error on the HTTP response body after the Downloader has
\* returned terminates the relay with that error; the store write is then
\* never acknowledged, and the run ends in the failure state with no
\* outputs: no run ends in success with a body truncated by an upstream
\* error.
C31_BodyErrorFailsTheRun ==
  sourceState = "errored" =>
    /\ relayState = "errored"
    /\ buffered = <<>>
    /\ writeAnswer \in {"none", "error"}
    /\ outputs = {}
    /\ ~Succeeded
    /\ pc \in {"awaitUpload", "awaitFailSummary", "failed", "rejected"}
    /\ Terminated => InFailure

C31_Witness ==
  /\ sourceState = "errored"
  /\ bodyLeft = 1
  /\ bytesTransferred = 1
  /\ writeAnswer = "error"
  /\ caught.kind = "storage"
  /\ Terminated

\* C32: a failure on one side of the byte channel tears down the other
\* side: once the store write has failed the HTTP response is no longer
\* open, an error of the HTTP response ends the store write without an
\* acknowledgement, and no run ends with the HTTP response left open.
C32_FailureTearsDownOtherSide ==
  /\ writeAnswer = "error" => sourceState # "open"
  /\ sourceState = "errored" => (relayState = "errored" /\ writeAnswer \in {"none", "error"})
  /\ Terminated => sourceState # "open"

C34_CountReadAfterEndOfStream ==
  /\ [](writeAnswer \in {"etag", "noEtag"} =>
          /\ sourceState = "ended"
          /\ relayState = "ended"
          /\ buffered = <<>>
          /\ bodyLeft = 0
          /\ \A o \in outputs : o.contentLength = bytesTransferred)
  /\ [][(writeAnswer \in {"etag", "noEtag"}) => (bytesTransferred' = bytesTransferred)]_vars
  /\ [][(bytesTransferred' # bytesTransferred) => (chunks' # chunks)]_vars

C34_Witness ==
  /\ Succeeded
  /\ sourceState = "ended"
  /\ \E o \in outputs : o.contentLength = 2 /\ o.objectExisted = "false"
  /\ Len(chunks) = 1

\* C39: every run terminates: provided each external call is answered and
\* the response body ends or fails, the run eventually reaches Done or
\* Failed (run() has resolved, or has rejected from its catch block).
C39_EveryRunTerminates == <>(pc \in {"done", "failed", "rejected"})

C39_Witness ==
  /\ Terminated
  /\ enableRetry
  /\ Len(attemptLog) = 4
  /\ Len(delays) = 3
  /\ sourceState = "ended"
  /\ writeAnswer = "etag"

====
